---- MODULE Spec2Model ----
(***************************************************************************)
(* Star-Daemon: the detect -> dispatch -> persist loop of star-daemon.py   *)
(* and the connector contract of connectors/base.py, as a state machine.   *)
(*                                                                         *)
(* One process.  The daemon's position in main()/initialize()/run()/       *)
(* check_new_stars()/_handle_new_star() is pc.  check_new_stars is cut at  *)
(* its network and file operations (snapshot fetch, one safe_post, the     *)
(* watermark assignment, the state write, the sleep) because the signal    *)
(* handler runs between any two of them.                                   *)
(***************************************************************************)
EXTENDS Integers, Sequences, FiniteSets, TLC

(* ------------------------------ bounds -------------------------------- *)

\* number of repositories that exist upstream
NumItems == 2
\* number of platforms (a prefix of PlatformOrder) the configuration may enable
NumPlatforms == 2

\* longest message handed to post_message
MaxMsgLen == 4
\* longest repository description
MaxDescLen == 2
\* the platform's length ceiling L, scaled to the message lengths above (the
\* connectors name no ceiling of their own)
CharLimit == 3

\* latest time.time() a state file is written at
MaxClock == 2
\* number of safe_post calls made on one connector object
MaxCalls == 4
\* number of initialize() calls made on one MatrixConnector
MaxInits == 2
\* number of URLs a DiscordConnector is asked to post or update
NumUrls == 2
\* number of post_message/update_message calls made on one DiscordConnector
MaxRequests == 3

RepoNames == <<"a/repo1", "b/repo2", "c/repo3", "d/repo4">>
Items == {RepoNames[i] : i \in 1..NumItems}

\* the order in which _initialize_connectors visits the platforms
PlatformOrder == <<"Mastodon", "BlueSky", "Discord", "Matrix">>
Platforms == {PlatformOrder[i] : i \in 1..NumPlatforms}

(* ------------------------------ state --------------------------------- *)

VARIABLES
    pc,               \* position of the process
    running,          \* StarDaemon.running
    exit_code,        \* "none" while the process lives, then "0" or "1"
    shutdown_called,  \* daemon.shutdown() has run (main's finally)
    config,           \* the global Config object, fixed at import
    state_file,       \* ~/.star-daemon-state.json
    starred_repos,    \* StarDaemon.starred_repos, the in-memory watermark
    constructed,      \* platforms whose connector object was constructed
    initialized,      \* Connector._initialized, per platform
    tested,           \* platforms whose test_connection() returned True
    connectors,       \* StarDaemon.connectors, the active list
    current_starred,  \* check_new_stars: keys of the fetched snapshot
    new_stars,        \* check_new_stars: new_stars
    todo,             \* items of new_stars the for loop has not visited yet
    repo,             \* _handle_new_star: the item being fanned out
    idx,              \* _handle_new_star: position in self.connectors
    fetch_ok,         \* the fetch of the current (or last) cycle succeeded
    cycle_start,      \* starred_repos when the current cycle began
    handled,          \* items passed to _handle_new_star in this cycle
    invoked,          \* <<item, platform>> pairs safe_post was called for in this cycle
    post_log,         \* per safe_post call of the current item: platform, the item
                      \* whose message and metadata were passed, outcome, return
    save_result,      \* outcome of the last _save_state of this cycle / of initialize
    no_watermark,     \* initialize's _load_state left the watermark empty
    baseline,         \* items seeded by the baseline step and present in every snapshot since
    rerun,            \* this cycle fetched the snapshot the cycle right before it fetched
    stopped_at,       \* where the process left: the pc a signal came at, or the
                      \* step of initialize that failed
    message,          \* post_message: the message argument, a sequence of characters
    metadata,         \* post_message: the metadata argument
    delivered,        \* the platform and the text of the last send call
    enabled,          \* Connector.enabled of one connector object
    _initialized,     \* Connector._initialized of that object
    calls,            \* the safe_post calls made on that object, oldest first
    state,            \* the JSON document in the state file
    clock,            \* time.time()
    saved,            \* the watermark the last _save_state wrote
    last_op,          \* the last operation on the state file
    matrix,           \* MatrixConnector: which constructor arguments are set
    access_token,     \* MatrixConnector.access_token
    init_log,         \* the MatrixConnector.initialize() calls made, oldest first
    active_messages,  \* DiscordConnector.active_messages: url -> message_id
    discord_log,      \* the post_message/update_message calls made on the
                      \* DiscordConnector, oldest first
    envelope,         \* what of the message and metadata a preview is built from
    posted,           \* the last post_message call that built a preview
    startup_pos,      \* _initialize_connectors: the platform block reached, in PlatformOrder
    startup_log,      \* the initialize()/test_connection() calls made on connectors, oldest first
    user_id,          \* MatrixConnector.username: the configured MATRIX_USER_ID, a sequence of characters
    login_data,       \* _login_and_get_token: whether the login request was posted and
                      \* the "user" of its identifier
    fan_count,        \* _handle_new_star calls made so far
    fan_item,         \* _handle_new_star: the item of the current call
    fan_pos,          \* _handle_new_star: position of the for loop in AllConnectors
    fan_metadata,     \* _handle_new_star: the metadata dict of the current call, key -> value
    fan_call,         \* the last post_message call: the dict before and after it
    settings,         \* Config: the enabled platforms and the settings that are not empty
    precheck,         \* what validate() returned and which connectors initialize() turned down for a missing setting
    environment,      \* what Config.__init__ finds: each provider's load_secrets outcome and where a key is held
    secrets           \* Config after __init__: secrets_manager, the providers consulted, the source of the key's value

procVars   == <<pc, running, exit_code, shutdown_called, stopped_at>>
connVars   == <<constructed, initialized, tested, connectors>>
cycleVars  == <<current_starred, new_stars, todo, fetch_ok, cycle_start, handled>>
fanVars    == <<repo, idx, invoked, post_log>>
initVars   == <<no_watermark, baseline>>
postVars   == <<message, metadata, delivered>>
baseVars   == <<enabled, _initialized, calls>>
storeVars  == <<state, clock, saved, last_op>>
matrixVars == <<matrix, access_token, init_log>>
discordVars == <<active_messages, discord_log>>
previewVars == <<envelope, posted>>
startupVars == <<startup_pos, startup_log>>
loginVars == <<user_id, login_data>>
fanOutVars == <<fan_count, fan_item, fan_pos, fan_metadata, fan_call>>
settingsVars == <<settings, precheck>>
secretsVars == <<environment, secrets>>
unitVars == <<startupVars, loginVars, fanOutVars, settingsVars, secretsVars>>
platformVars == <<matrixVars, discordVars, previewVars, unitVars>>
sideVars   == <<postVars, baseVars, storeVars, platformVars>>
\* the daemon's variables other than the watermark
daemonRest == <<pc, running, exit_code, shutdown_called, config, state_file,
                constructed, initialized, tested, connectors,
                current_starred, new_stars, todo, repo, idx, fetch_ok, cycle_start,
                handled, invoked, post_log, save_result, no_watermark, baseline,
                rerun, stopped_at>>
daemonVars == <<pc, running, exit_code, shutdown_called, config, state_file,
                starred_repos, constructed, initialized, tested, connectors,
                current_starred, new_stars, todo, repo, idx, fetch_ok, cycle_start,
                handled, invoked, post_log, save_result, no_watermark, baseline,
                rerun, stopped_at>>
vars == <<pc, running, exit_code, shutdown_called, config, state_file,
          starred_repos, constructed, initialized, tested, connectors,
          current_starred, new_stars, todo, repo, idx, fetch_ok, cycle_start,
          handled, invoked, post_log, save_result, no_watermark, baseline,
          rerun, stopped_at, message, metadata, delivered,
          enabled, _initialized, calls, state, clock, saved, last_op,
          matrix, access_token, init_log, active_messages, discord_log,
          envelope, posted,
          startup_pos, startup_log,
          user_id, login_data,
          fan_count, fan_item, fan_pos, fan_metadata, fan_call,
          settings, precheck,
          environment, secrets>>

(* --------------------------- environment inputs ----------------------- *)

\* what self.user.get_starred() can do: raise, or yield the current snapshot
FetchOutcomes ==
    {[ok |-> FALSE, keys |-> {}]} \cup {[ok |-> TRUE, keys |-> s] : s \in SUBSET Items}

\* what post_message can do
PostOutcomes == {"delivered", "failed", "raised"}

\* what open()/json.dump() can do in _save_state
WriteOutcomes == {"ok", "open_failed", "write_failed"}

\* what iterating the JSON string "a/repo1" yields: its characters
NameChars == {"a", "/", "r", "e", "p", "o", "1"}

\* The state file at startup.  kind says what _load_state meets:
\*   "missing"       exists() is False
\*   "unreadable"    open() raises
\*   "corrupt"       json.load raises (not JSON, or a write that was cut short)
\*   "not_object"    the JSON value is not an object: state.get raises
\*   "no_key"        an object without "starred_repos": get returns []
\*   "string_value"  "starred_repos" is the string "a/repo1", not a list
\*   "ok"            "starred_repos" is a list of keys, as _save_state writes it
\* starred_repos is what set() makes of the value when it is reached.
StateFiles ==
    {[kind |-> k, starred_repos |-> {}] :
        k \in {"missing", "unreadable", "corrupt", "not_object", "no_key"}}
    \cup {[kind |-> "string_value", starred_repos |-> NameChars]}
    \cup {[kind |-> "ok", starred_repos |-> s] : s \in SUBSET Items}

\* Config: the enabled flags, the enabled platforms whose required settings
\* are missing (validate reads a platform's settings only when it is
\* enabled), and whether MESSAGE_TEMPLATE formats with url/name/description.
Configs ==
    {[enabled |-> e, missing |-> m, template_ok |-> t] :
        e \in SUBSET Platforms, m \in SUBSET Platforms, t \in BOOLEAN}

(* ------------------------------ operators ----------------------------- *)

\* a validation that accepts every configuration
validate_lenient(cfg) == TRUE

\* Config.validate
validate(cfg) == cfg.enabled # {} /\ cfg.enabled \cap cfg.missing = {}

\* StarDaemon._load_state: the watermark after the load
load_state(file) ==
    IF file.kind \in {"ok", "string_value", "no_key"} THEN file.starred_repos ELSE {}

\* StarDaemon._save_state: the file after the write attempt
save_state(file, tracked, outcome) ==
    CASE outcome = "ok"           -> [kind |-> "ok", starred_repos |-> tracked]
      [] outcome = "open_failed"  -> file
      [] outcome = "write_failed" -> [kind |-> "corrupt", starred_repos |-> {}]

\* a diff that forgets to subtract the watermark
detect_all(tracked, snapshot) == snapshot

\* check_new_stars: new_stars = set(current_starred.keys()) - self.starred_repos
detect(tracked, snapshot) == snapshot \ tracked

\* an initialize that never takes the baseline branch
needs_baseline_never(tracked) == FALSE

\* an initialize that absorbs the startup snapshot on every start
needs_baseline_always(tracked) == TRUE

\* initialize: "if not self.starred_repos" -- the baseline branch
needs_baseline(tracked) == tracked = {}

\* watermark updates that merge, keep only the new items, or do not advance
update_tracked_union(tracked, snapshot) == tracked \cup snapshot
update_tracked_new_only(tracked, snapshot) == snapshot \ tracked
update_tracked_keep(tracked, snapshot) == tracked

\* check_new_stars: self.starred_repos = set(current_starred.keys())
update_tracked(tracked, snapshot) == snapshot

\* a fetch error handled as if the snapshot were empty
on_fetch_error_clear(tracked) == {}

\* check_new_stars: "except Exception as e: logger.error(...)" -- the watermark
\* after a fetch that raised
on_fetch_error(tracked) == tracked

\* a check_new_stars without its try/except: a fetch that raises ends run()
after_fetch_fatal(ok, new) ==
    IF ~ok THEN "stopped" ELSE IF new # {} THEN "dispatch" ELSE "sleep"

\* a check_new_stars that assigns and saves the watermark after every fetch
\* that succeeded, new items or not
after_fetch_always_update(ok, new) == IF ok THEN "dispatch" ELSE "sleep"

\* check_new_stars after the fetch: "if new_stars:" enters the dispatch loop
\* (and, after it, the watermark update and the save); otherwise, and when
\* the fetch raised, check_new_stars returns and run() sleeps
after_fetch(ok, new) == IF ok /\ new # {} THEN "dispatch" ELSE "sleep"

\* a failed save that puts the watermark back to what it was before the cycle
after_save_failure_rollback(tracked, previous) == previous

\* _save_state: "except Exception as e: logger.warning(...)" -- the in-memory
\* watermark after a write that failed
after_save_failure(tracked, previous) == tracked

\* a watermark update that does not wait for the dispatch loop to end
loop_done_early(remaining) == TRUE

\* check_new_stars: "for repo_name in new_stars" is exhausted, the statement
\* after the loop is reached
loop_done(remaining) == remaining = {}

\* an admission that skips the connectivity test
admitted_untested(init_ok, test_ok) == init_ok

\* _initialize_connectors: "if connector.initialize() and connector.test_connection()"
admitted(init_ok, test_ok) == init_ok /\ test_ok

\* the list _initialize_connectors builds, in PlatformOrder
RECURSIVE build_connectors(_, _)
build_connectors(i, ok) ==
    IF i > NumPlatforms THEN <<>>
    ELSE (IF PlatformOrder[i] \in ok THEN <<PlatformOrder[i]>> ELSE <<>>)
         \o build_connectors(i + 1, ok)

\* Connector.is_ready: self.enabled and self._initialized
\* (every constructor passes enabled=True)
is_ready(c) == c \in constructed /\ initialized[c]

\* a safe_post without its try/except
safe_post_unguarded(ready, outcome) ==
    IF ~ready THEN "False"
    ELSE CASE outcome = "delivered" -> "True"
           [] outcome = "failed"    -> "False"
           [] outcome = "raised"    -> "raise"

\* Connector.safe_post: what the caller gets for a readiness and a post outcome
safe_post(ready, outcome) ==
    IF ~ready THEN "False"
    ELSE CASE outcome = "delivered" -> "True"
           [] outcome = "failed"    -> "False"
           [] outcome = "raised"    -> "False"

\* a fan-out that stops at the first connector that did not deliver
next_connector_abort(i, ret) == IF ret = "True" THEN i + 1 ELSE Len(PlatformOrder) + 1

\* a fan-out that calls a connector again until it delivers
next_connector_retry(i, ret) == IF ret = "True" THEN i + 1 ELSE i

\* _handle_new_star: the for loop goes on to the next connector whatever
\* safe_post returned (or raised: the inner except logs and continues)
next_connector(i, ret) == i + 1

(* ------------------------------- Init --------------------------------- *)

\* main before daemon.initialize(): StarDaemon.__init__ has run
InitDaemon ==
    /\ pc = "start"
    /\ running = TRUE
    /\ exit_code = "none"
    /\ shutdown_called = FALSE
    /\ starred_repos = {}
    /\ constructed = {}
    /\ initialized = [p \in Platforms |-> FALSE]
    /\ tested = {}
    /\ connectors = <<>>
    /\ current_starred = {}
    /\ new_stars = {}
    /\ todo = {}
    /\ repo = "none"
    /\ idx = 0
    /\ fetch_ok = FALSE
    /\ cycle_start = {}
    /\ handled = {}
    /\ invoked = {}
    /\ post_log = <<>>
    /\ save_result = "none"
    /\ no_watermark = FALSE
    /\ baseline = {}
    /\ rerun = "no"
    /\ stopped_at = "none"

\* no post_message call is being looked at
NoMetadata == [repo_data |-> FALSE, description |-> <<>>, language |-> <<>>,
               stargazers_count |-> 0]
NoDelivery == [platform |-> "none", text |-> <<>>]

\* no single connector object is being looked at
NoConnector == enabled = FALSE /\ _initialized = FALSE /\ calls = <<>>

\* the JSON document of a state file that does not exist
NoState == [present |-> FALSE, doc |-> [starred_repos |-> <<>>, last_updated |-> 0]]
\* no MatrixConnector is being looked at
NoMatrix ==
    /\ matrix = [homeserver |-> FALSE, room_id |-> FALSE, username |-> FALSE,
                 password |-> FALSE, access_token |-> FALSE]
    /\ access_token = "none"
    /\ init_log = <<>>
\* the repository URLs a message or an update names; "none" is no URL
UrlNames == <<"https://github.com/a/repo1", "https://github.com/b/repo2",
              "https://github.com/c/repo3">>
Urls == {UrlNames[i] : i \in 1..NumUrls}
\* no DiscordConnector is being looked at
NoDiscord == active_messages = [u \in Urls |-> "none"] /\ discord_log = <<>>
\* no preview is being looked at
NoEnvelope == [first_url |-> "none", description |-> FALSE, avatar |-> FALSE]
NotPosted == [platform |-> "none", thumb |-> "none", upload |-> "none",
              page |-> "none", build |-> "none", send |-> "none",
              card |-> "none", scraped |-> FALSE, sent |-> FALSE, ret |-> FALSE]
NoPreview == envelope = NoEnvelope /\ posted = NotPosted
\* no platform connector is being looked at
\* the calls of _initialize_connectors are not being looked at
NoStartup ==
    startup_pos = 0 /\ startup_log = <<>>
\* no login exchange is being looked at
NoLogin ==
    user_id = <<>> /\ login_data = [sent |-> FALSE, user |-> <<>>]
\* no metadata dict is being looked at
NoFanOut ==
    /\ fan_count = 0 /\ fan_item = "none" /\ fan_pos = 0
    /\ fan_metadata = [k \in {} |-> 0]
    /\ fan_call = [platform |-> "none"]
\* the settings of the platforms are not being looked at
NoSettings ==
    /\ settings = [enabled |-> {}, set |-> {}]
    /\ precheck = [done |-> FALSE, valid |-> FALSE, rejected |-> {}]
\* the secrets providers are not being looked at
NoSecrets ==
    /\ environment = [load |-> <<>>, holds |-> {}, environ |-> FALSE, dotenv |-> FALSE]
    /\ secrets = [done |-> FALSE, secrets_manager |-> "none", consulted |-> <<>>,
                  source |-> "none"]
\* none of the single functions is being looked at
NoUnit == NoStartup /\ NoLogin /\ NoFanOut /\ NoSettings /\ NoSecrets
NoPlatform == NoMatrix /\ NoDiscord /\ NoPreview /\ NoUnit
\* the content of the state file is not being looked at
NoStore == state = NoState /\ clock = 0 /\ saved = {} /\ last_op = "none"

Init ==
    /\ InitDaemon
    /\ config \in {c \in Configs : c.missing \subseteq c.enabled}
    /\ state_file \in StateFiles
    /\ message = <<>>
    /\ metadata = NoMetadata
    /\ delivered = NoDelivery
    /\ NoConnector
    /\ NoStore
    /\ NoPlatform

(* ------------------------------ actions ------------------------------- *)

\* main: daemon.initialize() returned False -> sys.exit(1), before the try
\* whose finally calls shutdown()
InitializeFails(step) ==
    /\ pc' = "stopped"
    /\ exit_code' = "1"
    /\ stopped_at' = step
    /\ UNCHANGED <<running, shutdown_called>>

\* StarDaemon.initialize, then main enters daemon.run()
Initialize ==
    /\ UNCHANGED sideVars
    /\ pc = "start"
    /\ \E user_ok \in BOOLEAN, snap \in FetchOutcomes, w \in WriteOutcomes,
          init_ok \in SUBSET config.enabled :
        \E test_ok \in SUBSET init_ok :
            LET loaded == load_state(state_file) IN
            IF ~validate(config) \/ ~user_ok
            THEN /\ InitializeFails(IF ~validate(config) THEN "validate" ELSE "get_user")
                 /\ UNCHANGED <<state_file, starred_repos, connVars, save_result,
                                initVars, current_starred>>
            ELSE IF ~snap.ok
            THEN /\ InitializeFails("get_starred")
                 /\ starred_repos' = loaded
                 /\ no_watermark' = (loaded = {})
                 /\ UNCHANGED <<state_file, connVars, save_result, baseline,
                                current_starred>>
            ELSE /\ current_starred' = snap.keys
                 /\ no_watermark' = (loaded = {})
                 /\ baseline' = IF loaded = {} THEN snap.keys ELSE {}
                 /\ IF needs_baseline(loaded)
                    THEN /\ starred_repos' = snap.keys
                         /\ state_file' = save_state(state_file, snap.keys, w)
                         /\ save_result' = w
                    ELSE /\ starred_repos' = loaded
                         /\ UNCHANGED <<state_file, save_result>>
                 /\ constructed' = config.enabled
                 /\ initialized' = [p \in Platforms |-> p \in init_ok]
                 /\ tested' = test_ok
                 /\ connectors' = build_connectors(1,
                        {p \in Platforms : admitted(p \in init_ok, p \in test_ok)})
                 /\ pc' = "run"
                 /\ UNCHANGED <<running, exit_code, shutdown_called, stopped_at>>
    /\ UNCHANGED <<config, new_stars, todo, fetch_ok, cycle_start, handled, fanVars,
                   rerun>>

\* main: daemon.run() -- the start-up log lines, then the while loop
Run ==
    /\ UNCHANGED sideVars
    /\ pc = "run"
    /\ pc' = "tick"
    /\ UNCHANGED <<running, exit_code, shutdown_called, stopped_at, config,
                   state_file, starred_repos, connVars, cycleVars, fanVars,
                   save_result, initVars, rerun>>

\* run: "while self.running" -> check_new_stars: the fetch and the diff
CheckNewStars ==
    /\ UNCHANGED sideVars
    /\ pc = "tick"
    /\ running
    /\ \E snap \in FetchOutcomes :
        /\ fetch_ok' = snap.ok
        /\ rerun' = IF fetch_ok /\ snap.ok /\ snap.keys = current_starred
                    THEN (IF new_stars # {} THEN "after_new" ELSE "after_idle")
                    ELSE "no"
        /\ current_starred' = snap.keys
        /\ cycle_start' = starred_repos
        /\ IF snap.ok
           THEN /\ new_stars' = detect(starred_repos, snap.keys)
                /\ baseline' = baseline \cap snap.keys
           ELSE /\ new_stars' = {}
                /\ UNCHANGED baseline
        /\ UNCHANGED no_watermark
        /\ starred_repos' = IF snap.ok THEN starred_repos
                                     ELSE on_fetch_error(starred_repos)
        /\ todo' = new_stars'
        /\ pc' = after_fetch(snap.ok, new_stars')
    /\ handled' = {}
    /\ invoked' = {}
    /\ post_log' = <<>>
    /\ save_result' = "none"
    /\ UNCHANGED <<running, exit_code, shutdown_called, stopped_at, config,
                   state_file, connVars, repo, idx>>

\* check_new_stars: the for loop takes the next new item (set order is
\* arbitrary); _handle_new_star renders the message and builds the envelope.
\* A template that does not format raises: the outer except of
\* _handle_new_star logs it and the item reaches no connector.
HandleNewStar ==
    /\ UNCHANGED sideVars
    /\ pc = "dispatch"
    /\ todo # {}
    /\ \E r \in todo :
        /\ todo' = todo \ {r}
        /\ handled' = handled \cup {r}
        /\ IF config.template_ok /\ connectors # <<>>
           THEN pc' = "post" /\ repo' = r /\ idx' = 1
           ELSE pc' = "dispatch" /\ repo' = "none" /\ idx' = 0
    /\ post_log' = <<>>
    /\ UNCHANGED <<running, exit_code, shutdown_called, stopped_at, config,
                   state_file, starred_repos, connVars, current_starred, new_stars,
                   fetch_ok, cycle_start, invoked, save_result, initVars, rerun>>

\* _handle_new_star: one connector.safe_post(message, metadata)
SafePost ==
    /\ UNCHANGED sideVars
    /\ pc = "post"
    /\ LET c == connectors[idx] IN
       \E outcome \in PostOutcomes :
        LET ret == safe_post(is_ready(c), outcome) IN
        /\ invoked' = invoked \cup {<<repo, c>>}
        /\ post_log' = Append(post_log,
                              [connector |-> c, item |-> repo, outcome |-> outcome,
                               ret |-> ret])
        /\ IF next_connector(idx, ret) > Len(connectors)
           THEN pc' = "dispatch" /\ repo' = "none" /\ idx' = 0
           ELSE pc' = "post" /\ repo' = repo /\ idx' = next_connector(idx, ret)
    /\ UNCHANGED <<running, exit_code, shutdown_called, stopped_at, config,
                   state_file, starred_repos, connVars, cycleVars,
                   save_result, initVars, rerun>>

\* check_new_stars: after the for loop, the watermark assignment
UpdateTracked ==
    /\ UNCHANGED sideVars
    /\ pc = "dispatch"
    /\ loop_done(todo)
    /\ starred_repos' = update_tracked(starred_repos, current_starred)
    /\ pc' = "save"
    /\ UNCHANGED <<running, exit_code, shutdown_called, stopped_at, config,
                   state_file, connVars, cycleVars, fanVars, save_result, initVars, rerun>>

\* check_new_stars: self._save_state()
SaveState ==
    /\ UNCHANGED sideVars
    /\ pc = "save"
    /\ \E w \in WriteOutcomes :
        /\ state_file' = save_state(state_file, starred_repos, w)
        /\ save_result' = w
        /\ starred_repos' = IF w = "ok" THEN starred_repos
                             ELSE after_save_failure(starred_repos, cycle_start)
    /\ pc' = "sleep"
    /\ UNCHANGED <<running, exit_code, shutdown_called, stopped_at, config,
                   connVars, cycleVars, fanVars, initVars, rerun>>

\* run: time.sleep(config.check_interval), back to the while test
Sleep ==
    /\ UNCHANGED sideVars
    /\ pc = "sleep"
    /\ pc' = "tick"
    /\ UNCHANGED <<running, exit_code, shutdown_called, stopped_at, config,
                   state_file, starred_repos, connVars, cycleVars, fanVars,
                   save_result, initVars, rerun>>

\* signal_handler: sys.exit(0) raises SystemExit wherever the main thread is.
\* No "except Exception" catches it; inside daemon.run() main's finally
\* calls shutdown(), before it (during initialize) nothing does.
Signal ==
    /\ UNCHANGED sideVars
    /\ pc # "stopped"
    /\ pc' = "stopped"
    /\ stopped_at' = pc
    /\ exit_code' = "0"
    /\ IF pc = "start"
       THEN UNCHANGED <<running, shutdown_called>>
       ELSE running' = FALSE /\ shutdown_called' = TRUE
    /\ UNCHANGED <<config, state_file, starred_repos, connVars, cycleVars,
                   fanVars, save_result, initVars, rerun>>

Next ==
    \/ Initialize
    \/ Run
    \/ CheckNewStars
    \/ HandleNewStar
    \/ SafePost
    \/ UpdateTracked
    \/ SaveState
    \/ Sleep
    \/ Signal

Spec == Init /\ [][Next]_vars

\* The daemon is one thread running straight-line code: a step that can be
\* taken is taken (every network and file call returns or raises, the sleep
\* ends).  Nothing obliges a signal to arrive.
Step ==
    \/ Initialize
    \/ Run
    \/ CheckNewStars
    \/ HandleNewStar
    \/ SafePost
    \/ UpdateTracked
    \/ SaveState
    \/ Sleep

SpecLive == Init /\ [][Next]_vars /\ WF_vars(Step)

(* ------------------- post_message: the text that is sent --------------- *)

\* Characters of a message: "a" a non-space character, " " whitespace, "U" a
\* non-space character where the pattern https?://[^\s]+ starts to match.
Chars == {"a", " ", "U"}

RECURSIVE SeqsUpTo(_, _)
SeqsUpTo(alphabet, n) ==
    IF n = 0 THEN {<<>>}
    ELSE LET shorter == SeqsUpTo(alphabet, n - 1) IN
         shorter \cup {Append(q, ch) : q \in {x \in shorter : Len(x) = n - 1},
                                       ch \in alphabet}

Messages == SeqsUpTo(Chars, MaxMsgLen)

\* the repo_data of the envelope (absent when a caller passes none): the
\* description and the language ("" or None are the empty sequence), and
\* the star counter
Metadatas ==
    {NoMetadata} \cup
    {[repo_data |-> TRUE, description |-> d, language |-> l, stargazers_count |-> n] :
        d \in SeqsUpTo({"d"}, MaxDescLen), l \in {<<>>, <<"G", "o">>}, n \in {0, 7}}

\* s[:n]
Take(q, n) == SubSeq(q, 1, IF Len(q) < n THEN Len(q) ELSE n)

\* f"{n:,}" for a counter below 1000: its digits, no separator
Digit == <<"0", "1", "2", "3", "4", "5", "6", "7", "8", "9">>
format_count(n) == <<Digit[n + 1]>>

\* MastodonConnector.post_message: card_info, " • ".join(card_parts)
\* ("*" is the star emoji, "|" the bullet)
card_info(md) ==
    LET stars == IF md.stargazers_count # 0
                 THEN <<"*", " ">> \o format_count(md.stargazers_count)
                      \o <<" ", "s", "t", "a", "r", "s">>
                 ELSE <<>>
        lang == md.language
    IN  IF stars # <<>> /\ lang # <<>> THEN stars \o <<" ", "|", " ">> \o lang
        ELSE stars \o lang

\* MastodonConnector.post_message: the enhanced_message given to status_post
mastodon_text(m, md) ==
    IF ~md.repo_data THEN m
    ELSE LET description == md.description
             info == card_info(md)
         IN  IF description # <<>> /\ info # <<>>
             THEN m \o <<"\n", "\n">> \o info \o <<"\n">> \o Take(description, 200)
             ELSE IF description # <<>>
             THEN m \o <<"\n", "\n">> \o Take(description, 200)
             ELSE IF info # <<>>
             THEN m \o <<"\n", "\n">> \o info
             ELSE m

\* the end of the run of non-space characters that starts at i
RECURSIVE match_end(_, _)
match_end(m, i) ==
    IF i < Len(m) /\ m[i + 1] # " " THEN match_end(m, i + 1) ELSE i

\* BlueSkyConnector.post_message: the TextBuilder's text -- the text before
\* each URL, the URL as a link whose text is the URL, the text after the last
RECURSIVE text_builder(_, _, _, _)
text_builder(m, i, last_pos, built) ==
    IF i > Len(m)
    THEN (IF last_pos <= Len(m) THEN built \o SubSeq(m, last_pos, Len(m)) ELSE built)
    ELSE IF m[i] = "U"
    THEN LET e == match_end(m, i) IN
         text_builder(m, e + 1, e + 1,
                      built \o SubSeq(m, last_pos, i - 1) \o SubSeq(m, i, e))
    ELSE text_builder(m, i + 1, last_pos, built)

bluesky_text(m, md) == text_builder(m, 1, 1, <<>>)

\* MatrixConnector.post_message: event_data["body"] = plain_body = message
matrix_text(m, md) == m

InitPost ==
    /\ InitDaemon
    /\ config = [enabled |-> {}, missing |-> {}, template_ok |-> TRUE]
    /\ state_file = [kind |-> "missing", starred_repos |-> {}]
    /\ message \in Messages
    /\ metadata \in Metadatas
    /\ delivered = NoDelivery
    /\ NoConnector
    /\ NoStore
    /\ NoPlatform

\* MastodonConnector.post_message up to self.client.status_post
MastodonPostMessage ==
    /\ delivered' = [platform |-> "Mastodon", text |-> mastodon_text(message, metadata)]
    /\ UNCHANGED <<message, metadata, daemonVars, baseVars, storeVars, platformVars>>

\* BlueSkyConnector.post_message up to self.client.send_post
BlueSkyPostMessage ==
    /\ delivered' = [platform |-> "BlueSky", text |-> bluesky_text(message, metadata)]
    /\ UNCHANGED <<message, metadata, daemonVars, baseVars, storeVars, platformVars>>

\* MatrixConnector.post_message up to requests.post
MatrixPostMessage ==
    /\ delivered' = [platform |-> "Matrix", text |-> matrix_text(message, metadata)]
    /\ UNCHANGED <<message, metadata, daemonVars, baseVars, storeVars, platformVars>>

NextPost ==
    \/ MastodonPostMessage
    \/ BlueSkyPostMessage
    \/ MatrixPostMessage

SpecPost == InitPost /\ [][NextPost]_vars

(* ---------------- the state file: _save_state, _load_state ------------- *)

\* list(self.starred_repos): the keys of the set, each once, in some order
Listings(S) ==
    {l \in [1..Cardinality(S) -> S] : \A i, j \in 1..Cardinality(S) : l[i] = l[j] => i = j}

\* _save_state: the document json.dump writes at time t
json_dump(keys, t) == [starred_repos |-> keys, last_updated |-> t]

\* a load that loses the first element of the list
as_set_skip_first(l) == {l[i] : i \in DOMAIN l \ {1}}

\* _load_state: set(state.get("starred_repos", []))
as_set(l) == {l[i] : i \in DOMAIN l}

\* a fresh StarDaemon, no state file
InitStore ==
    /\ InitDaemon
    /\ config = [enabled |-> {}, missing |-> {}, template_ok |-> TRUE]
    /\ state_file = [kind |-> "missing", starred_repos |-> {}]
    /\ message = <<>>
    /\ metadata = NoMetadata
    /\ delivered = NoDelivery
    /\ NoConnector
    /\ NoStore
    /\ NoPlatform

\* initialize / check_new_stars: self.starred_repos = <keys of a snapshot>,
\* some time after the last operation
StoreAssign ==
    /\ \E W \in SUBSET Items : starred_repos' = W /\ W # starred_repos
    /\ \E t \in {clock, clock + 1} : t <= MaxClock /\ clock' = t
    /\ last_op' = "assign"
    /\ UNCHANGED <<state, saved, daemonRest, postVars, baseVars,
                   platformVars>>

\* _save_state, the write succeeding
StoreSave ==
    /\ \E l \in Listings(starred_repos) :
          state' = [present |-> TRUE, doc |-> json_dump(l, clock)]
    /\ saved' = starred_repos
    /\ last_op' = "save"
    /\ UNCHANGED <<starred_repos, clock, daemonRest, postVars, baseVars,
                   platformVars>>

\* _load_state, the file readable
StoreLoad ==
    /\ starred_repos' = IF state.present THEN as_set(state.doc.starred_repos)
                         ELSE starred_repos
    /\ last_op' = "load"
    /\ UNCHANGED <<state, clock, saved, daemonRest, postVars, baseVars,
                   platformVars>>

NextStore ==
    \/ StoreAssign
    \/ StoreSave
    \/ StoreLoad

SpecStore == InitStore /\ [][NextStore]_vars

(* ------------------ one connector object: connectors/base.py ---------- *)

\* Connector.is_ready on the object's own fields
ready(en, ini) == en /\ ini

\* a safe_post without its readiness guard
post_attempted_always(rdy) == TRUE

\* Connector.safe_post: "if not self.is_ready(): ... return False" comes
\* before the try -- whether post_message is invoked
post_attempted(rdy) == rdy

\* Connector.__init__(name, enabled): any caller, either flag
InitBase ==
    /\ InitDaemon
    /\ config = [enabled |-> {}, missing |-> {}, template_ok |-> TRUE]
    /\ state_file = [kind |-> "missing", starred_repos |-> {}]
    /\ message = <<>>
    /\ metadata = NoMetadata
    /\ delivered = NoDelivery
    /\ enabled \in BOOLEAN
    /\ _initialized = FALSE
    /\ calls = <<>>
    /\ NoStore
    /\ NoPlatform

\* initialize(): every connector sets _initialized = True when it succeeds
\* and leaves it alone when it fails; none looks at self.enabled
BaseInitialize ==
    /\ \E ok \in BOOLEAN : _initialized' = (_initialized \/ ok)
    /\ UNCHANGED <<enabled, calls, daemonVars, postVars, storeVars,
                   platformVars>>

\* safe_post(message, metadata), called by anyone at any time
BaseSafePost ==
    /\ Len(calls) < MaxCalls
    /\ \E outcome \in PostOutcomes :
        LET rdy == ready(enabled, _initialized)
            att == post_attempted(rdy)
        IN  calls' = Append(calls,
                [ready |-> rdy,
                 attempted |-> att,
                 outcome |-> IF att THEN outcome ELSE "none",
                 ret |-> safe_post(rdy, outcome)])
    /\ UNCHANGED <<enabled, _initialized, daemonVars, postVars, storeVars,
                   platformVars>>

NextBase ==
    \/ BaseInitialize
    \/ BaseSafePost

SpecBase == InitBase /\ [][NextBase]_vars

(* ------------- MatrixConnector.initialize: which credential ----------- *)

\* what the login exchange of _login_and_get_token can do: answer 200 with
\* an access token, 200 without one, another status, or raise
LoginOutcomes == {"token", "no_token", "rejected", "raised"}

\* the constructor arguments: each is set or empty
MatrixArgs ==
    [homeserver : BOOLEAN, room_id : BOOLEAN, username : BOOLEAN,
     password : BOOLEAN, access_token : BOOLEAN]

\* _login_and_get_token: the token it returns, None unless the answer is 200
\* and carries one
login_and_get_token(outcome) == IF outcome = "token" THEN "fresh" ELSE "none"

\* an initialize that prefers the static token to the pair
auth_method_token_first(args, token) ==
    IF ~args.homeserver \/ ~args.room_id THEN "missing"
    ELSE IF token # "none" THEN "static"
    ELSE IF args.username /\ args.password THEN "login"
    ELSE "none"

\* initialize: "if self.username and self.password: ... elif
\* self.access_token: ... else: ..." after the homeserver/room_id test
auth_method(args, token) ==
    IF ~args.homeserver \/ ~args.room_id THEN "missing"
    ELSE IF args.username /\ args.password THEN "login"
    ELSE IF token # "none" THEN "static"
    ELSE "none"

\* MatrixConnector.__init__, any combination of arguments
InitMatrix ==
    /\ InitDaemon
    /\ config = [enabled |-> {}, missing |-> {}, template_ok |-> TRUE]
    /\ state_file = [kind |-> "missing", starred_repos |-> {}]
    /\ message = <<>>
    /\ metadata = NoMetadata
    /\ delivered = NoDelivery
    /\ enabled = TRUE
    /\ _initialized = FALSE
    /\ calls = <<>>
    /\ NoStore
    /\ matrix \in MatrixArgs
    /\ access_token = IF matrix.access_token THEN "static" ELSE "none"
    /\ init_log = <<>>
    /\ NoDiscord
    /\ NoPreview
    /\ NoUnit

\* MatrixConnector.initialize
MatrixInitialize ==
    /\ Len(init_log) < MaxInits
    /\ \E outcome \in LoginOutcomes :
        LET method == auth_method(matrix, access_token)
            token  == IF method = "login" THEN login_and_get_token(outcome)
                      ELSE access_token
            ok     == method \in {"login", "static"} /\ token # "none"
        IN  /\ access_token' = token
            /\ _initialized' = (_initialized \/ ok)
            /\ init_log' = Append(init_log,
                    [method |-> method,
                     login |-> IF method = "login" THEN outcome ELSE "none",
                     had_token |-> access_token,
                     token |-> token,
                     ret |-> ok])
    /\ UNCHANGED <<matrix, enabled, calls, daemonVars, postVars, storeVars,
                   discordVars, previewVars, unitVars>>

NextMatrix == MatrixInitialize

SpecMatrix == InitMatrix /\ [][NextMatrix]_vars

(* ------------ DiscordConnector: post_message, update_message ---------- *)

\* the ids Discord assigns to messages
MessageIds == {"m1", "m2"}

\* what the webhook POST can do: answer 200 with an id, 200 without one,
\* another status, or raise (also: building the payload raises)
DiscordPostOutcomes == {"ok_id", "ok_no_id", "status", "raised"}
\* what the PATCH can do
DiscordPatchOutcomes == {"ok", "status", "raised"}

\* a post_message that remembers the id field of any answer
stored_after_post_any(stored, url, outcome, id) ==
    IF url # "none" THEN [stored EXCEPT ![url] = id] ELSE stored

\* post_message: "if response.status_code == 200: ... if message_id and
\* first_url: self.active_messages[first_url] = {...}"
stored_after_post(stored, url, outcome, id) ==
    IF outcome = "ok_id" /\ url # "none" THEN [stored EXCEPT ![url] = id] ELSE stored

\* an update_message that does not look the URL up
update_sends_unseen(ini, url, stored) == ini /\ url # "none"

\* update_message: the two early returns -- "if not self._initialized or
\* not repo_url" and "if repo_url not in self.active_messages"
update_sends(ini, url, stored) == ini /\ url # "none" /\ stored[url] # "none"

\* a DiscordConnector after __init__, initialize() having succeeded or not
InitDiscord ==
    /\ InitDaemon
    /\ config = [enabled |-> {}, missing |-> {}, template_ok |-> TRUE]
    /\ state_file = [kind |-> "missing", starred_repos |-> {}]
    /\ message = <<>>
    /\ metadata = NoMetadata
    /\ delivered = NoDelivery
    /\ enabled = TRUE
    /\ _initialized \in BOOLEAN
    /\ calls = <<>>
    /\ NoStore
    /\ NoMatrix
    /\ NoDiscord
    /\ NoPreview
    /\ NoUnit

\* DiscordConnector.post_message; url is first_url (the first URL of the
\* message, else metadata["url"], else None)
DiscordPostMessage ==
    /\ Len(discord_log) < MaxRequests
    /\ \E url \in Urls \cup {"none"}, outcome \in DiscordPostOutcomes, id \in MessageIds :
        LET sent   == _initialized
            result == IF sent THEN outcome ELSE "none"
            answer == IF result = "ok_id" THEN id ELSE "none"
            after  == IF sent THEN stored_after_post(active_messages, url, outcome, answer)
                      ELSE active_messages
        IN  /\ active_messages' = after
            /\ discord_log' = Append(discord_log,
                    [op |-> "post", url |-> url, sent |-> sent, outcome |-> result,
                     id |-> answer,
                     ret |-> sent /\ outcome \in {"ok_id", "ok_no_id"},
                     before |-> active_messages, after |-> after])
    /\ UNCHANGED <<enabled, _initialized, calls, daemonVars, postVars, storeVars,
                   matrixVars, previewVars, unitVars>>

\* DiscordConnector.update_message(repo_url, repo_data)
DiscordUpdateMessage ==
    /\ Len(discord_log) < MaxRequests
    /\ \E url \in Urls \cup {"none"}, outcome \in DiscordPatchOutcomes :
        LET sent   == update_sends(_initialized, url, active_messages)
            result == IF sent THEN outcome ELSE "none"
        IN  discord_log' = Append(discord_log,
                    [op |-> "patch", url |-> url, sent |-> sent, outcome |-> result,
                     id |-> IF url # "none" THEN active_messages[url] ELSE "none",
                     ret |-> sent /\ outcome = "ok",
                     before |-> active_messages, after |-> active_messages])
    /\ UNCHANGED <<active_messages, enabled, _initialized, calls, daemonVars, postVars,
                   storeVars, matrixVars, previewVars, unitVars>>

NextDiscord ==
    \/ DiscordPostMessage
    \/ DiscordUpdateMessage

SpecDiscord == InitDiscord /\ [][NextDiscord]_vars

(* ------------- post_message: the preview card and the send ------------ *)

\* What a preview is built from, for an envelope _handle_new_star makes:
\* first_url is the host of the first URL of the rendered message ("github"
\* for the repository's html_url, "other" when the template puts another URL
\* first, "none" when it has no URL); description and avatar say whether
\* repo.description and repo.owner's avatar_url are there (else None).
\* repo_data itself is always there.
Envelopes ==
    [first_url : {"none", "github", "other"}, description : BOOLEAN, avatar : BOOLEAN]

\* what the network calls of one post_message can do: the thumbnail GET,
\* the blob/media upload, the page GET and parse, the construction of the
\* embed model, and the send itself
Faults ==
    [thumb : {"ok", "status", "raised"}, upload : {"ok", "raised"},
     page : {"ok", "raised"}, build : {"ok", "raised"}, send : {"ok", "raised"}]

\* the inner try/except around the thumbnail download and upload (BlueSky
\* and Mastodon alike): the thumbnail when everything worked, else none
thumb_or_none(has_image, f) ==
    IF has_image /\ f.thumb = "ok" /\ f.upload = "ok" THEN "thumb" ELSE "none"

\* BlueSkyConnector.post_message, the body of the try that builds the embed:
\* "raise" when an exception leaves it
bluesky_embed(env, f) ==
    IF env.first_url = "none" THEN "none"
    ELSE IF env.first_url = "github"
    THEN IF ~env.description THEN "raise"
         ELSE IF f.build = "raised" THEN "raise"
         ELSE IF thumb_or_none(env.avatar, f) = "thumb" THEN "card_thumb" ELSE "card"
    ELSE IF f.page = "raised" THEN "raise"
         ELSE IF f.build = "raised" THEN "raise"
         ELSE IF thumb_or_none(TRUE, f) = "thumb" THEN "card_thumb" ELSE "card"

\* BlueSkyConnector.post_message: the page at first_url is requested in the
\* else branch of "if repo_data and (host is github.com or gitlab.com)",
\* inside "if first_url"; the envelope here always carries repo_data
bluesky_scrapes(env) == env.first_url = "other"

\* an embed block whose exception is not caught
embed_unguarded(built) == built

\* BlueSkyConnector.post_message: "except Exception as embed_error: ...
\* embed = None"
embed_or_none(built) == IF built = "raise" THEN "none" ELSE built

\* MastodonConnector.post_message: the thumbnail block; its except logs and
\* leaves media_ids empty
mastodon_media(env, f) ==
    IF thumb_or_none(env.avatar, f) = "thumb" THEN "media" ELSE "none"

\* the call as a whole: the send is reached unless an exception left the
\* preview code, and the return value is the send's
post_result(platform, f, card, scraped) ==
    [platform |-> platform, thumb |-> f.thumb, upload |-> f.upload, page |-> f.page,
     build |-> f.build, send |-> f.send,
     card |-> IF card = "raise" THEN "none" ELSE card,
     scraped |-> scraped,
     sent |-> card # "raise",
     ret |-> card # "raise" /\ f.send = "ok"]

\* an initialized connector about to post the message of one item
InitPreview ==
    /\ InitDaemon
    /\ config = [enabled |-> {}, missing |-> {}, template_ok |-> TRUE]
    /\ state_file = [kind |-> "missing", starred_repos |-> {}]
    /\ message = <<>>
    /\ metadata = NoMetadata
    /\ delivered = NoDelivery
    /\ enabled = TRUE
    /\ _initialized = TRUE
    /\ calls = <<>>
    /\ NoStore
    /\ NoMatrix
    /\ NoDiscord
    /\ NoUnit
    /\ envelope \in Envelopes
    /\ posted = NotPosted

\* BlueSkyConnector.post_message
BlueSkyPreviewPost ==
    /\ \E f \in Faults :
          posted' = post_result("BlueSky", f, embed_or_none(bluesky_embed(envelope, f)),
                                bluesky_scrapes(envelope))
    /\ UNCHANGED <<envelope, daemonVars, postVars, baseVars, storeVars, matrixVars,
                   discordVars, unitVars>>

\* MastodonConnector.post_message
MastodonPreviewPost ==
    /\ \E f \in Faults :
          posted' = post_result("Mastodon", f, mastodon_media(envelope, f), FALSE)
    /\ UNCHANGED <<envelope, daemonVars, postVars, baseVars, storeVars, matrixVars,
                   discordVars, unitVars>>

NextPreview ==
    \/ BlueSkyPreviewPost
    \/ MastodonPreviewPost

SpecPreview == InitPreview /\ [][NextPreview]_vars

(* ------------- _initialize_connectors: the calls it makes -------------- *)

\* the variables of the specifications above that the ones below leave alone
oldVars == <<postVars, baseVars, storeVars, matrixVars, discordVars, previewVars>>

\* the daemon's variables that _initialize_connectors does not assign
daemonNoConn == <<procVars, config, state_file, starred_repos, cycleVars, fanVars,
                  save_result, initVars, rerun>>

\* test_connection() calls made from outside _initialize_connectors
MaxProbes == 2

\* what the platform answers to initialize's session setup and to the
\* request of test_connection
ConnectOutcomes == {"ok", "failed"}

\* a block that tests the connection whatever initialize() returned
test_called_always(init_ret) == TRUE

\* _initialize_connectors: "connector.initialize() and connector.test_connection()"
\* -- and does not evaluate its right side when the left is False
test_called(init_ret) == init_ret

\* test_connection of a connector: what it returns and whether it made a
\* request. Each starts with "if not self._initialized ...: return False";
\* Discord's only looks at the webhook URL initialize has accepted.
test_connection(p, ini, net) ==
    IF ~ini THEN [ret |-> FALSE, network |-> FALSE]
    ELSE IF p = "Discord" THEN [ret |-> TRUE, network |-> FALSE]
    ELSE [ret |-> net = "ok", network |-> TRUE]

\* initialize() has validated the configuration, reached the source and
\* settled the watermark; _initialize_connectors is about to run
InitStartup ==
    /\ InitDaemon
    /\ config \in {c \in Configs : validate(c) /\ c.template_ok}
    /\ state_file = [kind |-> "missing", starred_repos |-> {}]
    /\ message = <<>>
    /\ metadata = NoMetadata
    /\ delivered = NoDelivery
    /\ NoConnector
    /\ NoStore
    /\ NoMatrix
    /\ NoDiscord
    /\ NoPreview /\ NoLogin /\ NoFanOut /\ NoSettings /\ NoSecrets
    /\ startup_pos = 1
    /\ startup_log = <<>>

\* _initialize_connectors: the block of one platform
InitializeConnector ==
    /\ startup_pos \in 1..NumPlatforms
    /\ startup_pos' = startup_pos + 1
    /\ LET p == PlatformOrder[startup_pos] IN
       IF p \notin config.enabled
       THEN UNCHANGED <<connVars, startup_log>>
       ELSE \E i \in ConnectOutcomes, t \in ConnectOutcomes :
              LET init_ret == i = "ok"
                  tc == test_connection(p, init_ret, t)
                  test_ret == test_called(init_ret) /\ tc.ret
              IN /\ constructed' = constructed \cup {p}
                 /\ initialized' = [initialized EXCEPT ![p] = init_ret]
                 /\ tested' = IF test_ret THEN tested \cup {p} ELSE tested
                 /\ connectors' = IF admitted(init_ret, test_ret)
                                   THEN Append(connectors, p) ELSE connectors
                 /\ startup_log' =
                       startup_log
                       \o <<[platform |-> p, op |-> "initialize", ret |-> init_ret,
                              network |-> TRUE, by |-> "startup"]>>
                       \o (IF test_called(init_ret)
                           THEN <<[platform |-> p, op |-> "test_connection",
                                   ret |-> tc.ret, network |-> tc.network,
                                   by |-> "startup"]>>
                           ELSE <<>>)
    /\ UNCHANGED <<oldVars, daemonNoConn, loginVars, fanOutVars, settingsVars, secretsVars>>

\* test_connection() called on a connector object after startup
TestConnection ==
    /\ startup_pos = NumPlatforms + 1
    /\ Cardinality({k \in DOMAIN startup_log : startup_log[k].by = "probe"}) < MaxProbes
    /\ \E p \in constructed, t \in ConnectOutcomes :
          LET tc == test_connection(p, initialized[p], t) IN
          startup_log' = Append(startup_log,
              [platform |-> p, op |-> "test_connection", ret |-> tc.ret,
               network |-> tc.network, by |-> "probe"])
    /\ UNCHANGED <<oldVars, daemonNoConn, connVars, startup_pos, loginVars, fanOutVars, settingsVars, secretsVars>>

NextStartup ==
    \/ InitializeConnector
    \/ TestConnection

SpecStartup == InitStartup /\ [][NextStartup]_vars

(* -------------- _login_and_get_token: the user submitted --------------- *)

\* longest user id
MaxIdLen == 4

\* characters of a user id: "@", ":" and "u" for any other character
IdChars == {"@", ":", "u"}

\* the user ids: MATRIX_USER_ID is not empty when the login is reached
\* (initialize logs in only "if self.username and self.password")
UserIds == UNION {[1..n -> IdChars] : n \in 1..MaxIdLen}

\* str.split(":")[0]: the text before the first ":"
RECURSIVE split_first(_)
split_first(str) ==
    IF str = <<>> \/ Head(str) = ":" THEN <<>>
    ELSE <<Head(str)>> \o split_first(Tail(str))

\* _login_and_get_token: username_local
username_local(id) ==
    IF Head(id) = "@" THEN split_first(Tail(id)) ELSE id

\* a MatrixConnector whose initialize takes the username/password branch
InitLogin ==
    /\ InitDaemon
    /\ config = [enabled |-> {}, missing |-> {}, template_ok |-> TRUE]
    /\ state_file = [kind |-> "missing", starred_repos |-> {}]
    /\ message = <<>>
    /\ metadata = NoMetadata
    /\ delivered = NoDelivery
    /\ NoConnector
    /\ NoStore
    /\ NoMatrix
    /\ NoDiscord
    /\ NoPreview /\ NoStartup /\ NoFanOut /\ NoSettings /\ NoSecrets
    /\ user_id \in UserIds
    /\ login_data = [sent |-> FALSE, user |-> <<>>]

\* _login_and_get_token: the login request is built and posted
LoginRequest ==
    /\ login_data' = [sent |-> TRUE, user |-> username_local(user_id)]
    /\ UNCHANGED <<oldVars, daemonVars, user_id, startupVars, fanOutVars, settingsVars, secretsVars>>

NextLogin == LoginRequest

SpecLogin == InitLogin /\ [][NextLogin]_vars

(* ------------- _handle_new_star: the shared metadata dict -------------- *)

\* _handle_new_star calls looked at
MaxFanOuts == 3

\* the connectors that can be in self.connectors
AllConnectors == <<"Mastodon", "BlueSky", "Discord", "Matrix">>

\* the keys _handle_new_star puts in the dict (the legacy fields stand
\* with "name") and the keys connectors add
EnvelopeKeys == {"url", "repo_data", "thumbnail_url", "name"}
HandleKeys == {"last_status_id", "last_post_uri", "last_event_id"}

\* the key a connector's post_message assigns; Discord's assigns none
handle_key(p) ==
    CASE p = "Mastodon" -> "last_status_id"
      [] p = "BlueSky"  -> "last_post_uri"
      [] p = "Matrix"   -> "last_event_id"
      [] p = "Discord"  -> "none"

\* what one safe_post does: the connector is not ready or the send fails or
\* raises, or the platform accepts the post and answers with or without an
\* identifier
HandleOutcomes == {"not_sent", "failed", "raised", "posted_id", "posted_no_id"}

\* _handle_new_star: "metadata = {...}", a new dict for the item; the values
\* are the item's, written here as the number n of the call
build_metadata(n) == [k \in EnvelopeKeys |-> n]

\* a post_message that stores a handle whatever the send did
metadata_after_post_always(md, p, outcome, n) ==
    IF handle_key(p) = "none" THEN md
    ELSE [k \in DOMAIN md \cup {handle_key(p)} |->
             IF k = handle_key(p) THEN n ELSE md[k]]

\* post_message: "metadata[<handle key>] = <identifier>" after the send
\* succeeded and gave an identifier; the identifier is written as n
metadata_after_post(md, p, outcome, n) ==
    IF outcome = "posted_id" /\ handle_key(p) # "none"
    THEN [k \in DOMAIN md \cup {handle_key(p)} |->
             IF k = handle_key(p) THEN n ELSE md[k]]
    ELSE md

\* the daemon runs; no new item has been handled yet
InitFanOut ==
    /\ InitDaemon
    /\ config = [enabled |-> {}, missing |-> {}, template_ok |-> TRUE]
    /\ state_file = [kind |-> "missing", starred_repos |-> {}]
    /\ message = <<>>
    /\ metadata = NoMetadata
    /\ delivered = NoDelivery
    /\ NoConnector
    /\ NoStore
    /\ NoMatrix
    /\ NoDiscord
    /\ NoPreview /\ NoStartup /\ NoLogin /\ NoSettings /\ NoSecrets
    /\ fan_count = 0
    /\ fan_item = "none"
    /\ fan_pos = 0
    /\ fan_metadata = [k \in {} |-> 0]
    /\ fan_call = [platform |-> "none"]

\* _handle_new_star: the message and the metadata dict of an item are built
BuildEnvelope ==
    /\ fan_pos \in {0, Len(AllConnectors) + 1}
    /\ fan_count < MaxFanOuts
    /\ fan_count' = fan_count + 1
    /\ \E r \in Items : fan_item' = r
    /\ fan_pos' = 1
    /\ fan_metadata' = build_metadata(fan_count')
    /\ UNCHANGED <<oldVars, daemonVars, fan_call, startupVars, loginVars, settingsVars, secretsVars>>

\* _handle_new_star: connector.safe_post(message, metadata) of the next
\* connector, with the dict every connector of this fan-out gets
ConnectorPost ==
    /\ fan_pos \in 1..Len(AllConnectors)
    /\ fan_pos' = fan_pos + 1
    /\ \E outcome \in HandleOutcomes :
          LET p == AllConnectors[fan_pos]
              after == metadata_after_post(fan_metadata, p, outcome, fan_count)
          IN /\ fan_metadata' = after
             /\ fan_call' = [platform |-> p, item |-> fan_item, n |-> fan_count,
                             outcome |-> outcome, before |-> fan_metadata,
                             after |-> after]
    /\ UNCHANGED <<oldVars, daemonVars, fan_count, fan_item, startupVars, loginVars, settingsVars, secretsVars>>

NextFanOut ==
    \/ BuildEnvelope
    \/ ConnectorPost

SpecFanOut == InitFanOut /\ [][NextFanOut]_vars

(* ---------- Config.validate and the connectors' preconditions --------- *)

\* the settings of a platform, by the name of the Config attribute
SettingsOf(p) ==
    CASE p = "Mastodon" -> {"mastodon_api_base_url", "mastodon_client_id",
                            "mastodon_client_secret", "mastodon_access_token"}
      [] p = "BlueSky"  -> {"bluesky_handle", "bluesky_app_password"}
      [] p = "Discord"  -> {"discord_webhook_url", "discord_bot_token",
                            "discord_channel_id"}
      [] p = "Matrix"   -> {"matrix_homeserver", "matrix_user_id", "matrix_password",
                            "matrix_access_token", "matrix_room_id"}

AllPlatforms == {AllConnectors[i] : i \in 1..Len(AllConnectors)}

\* the configurations: which platforms are enabled and which of their
\* settings hold a non-empty value (a webhook URL that is set is a Discord
\* webhook URL; the settings of a disabled platform are never read and are
\* left unset)
Settings(e) ==
    {[enabled |-> e, set |-> v] : v \in SUBSET UNION {SettingsOf(p) : p \in e}}

\* Config.validate: the check of one enabled platform
platform_valid(p, set) ==
    CASE p = "Mastodon" ->
            {"mastodon_api_base_url", "mastodon_access_token"} \subseteq set
      [] p = "BlueSky" ->
            {"bluesky_handle", "bluesky_app_password"} \subseteq set
      [] p = "Discord" ->
            \/ "discord_webhook_url" \in set
            \/ {"discord_bot_token", "discord_channel_id"} \subseteq set
      [] p = "Matrix" ->
            /\ {"matrix_homeserver", "matrix_user_id", "matrix_room_id"} \subseteq set
            /\ ("matrix_password" \in set \/ "matrix_access_token" \in set)

\* Config.validate on the settings: the Config it amounts to
as_config(st) ==
    [enabled |-> st.enabled,
     missing |-> {p \in st.enabled : ~platform_valid(p, st.set)},
     template_ok |-> TRUE]

\* the precondition at the start of a connector's initialize()
credentials_ok(p, set) ==
    CASE p = "Mastodon" ->
            {"mastodon_client_id", "mastodon_client_secret", "mastodon_access_token",
             "mastodon_api_base_url"} \subseteq set
      [] p = "BlueSky" ->
            {"bluesky_handle", "bluesky_app_password"} \subseteq set
      [] p = "Discord" ->
            "discord_webhook_url" \in set
      [] p = "Matrix" ->
            /\ {"matrix_homeserver", "matrix_room_id"} \subseteq set
            /\ \/ {"matrix_user_id", "matrix_password"} \subseteq set
               \/ "matrix_access_token" \in set

\* the Config object has been built from the environment
InitSettings ==
    /\ InitDaemon
    /\ config = [enabled |-> {}, missing |-> {}, template_ok |-> TRUE]
    /\ state_file = [kind |-> "missing", starred_repos |-> {}]
    /\ message = <<>>
    /\ metadata = NoMetadata
    /\ delivered = NoDelivery
    /\ NoConnector
    /\ NoStore
    /\ NoMatrix
    /\ NoDiscord
    /\ NoPreview /\ NoStartup /\ NoLogin /\ NoFanOut /\ NoSecrets
    /\ \E e \in SUBSET AllPlatforms : settings \in Settings(e)
    /\ precheck = [done |-> FALSE, valid |-> FALSE, rejected |-> {}]

\* initialize: config.validate(), then each enabled connector's
\* initialize() checks its own settings
ValidateThenInitialize ==
    /\ ~precheck.done
    /\ precheck' =
          [done |-> TRUE,
           valid |-> validate(as_config(settings)),
           rejected |-> {p \in settings.enabled : ~credentials_ok(p, settings.set)}]
    /\ UNCHANGED <<oldVars, daemonVars, settings, startupVars, loginVars, fanOutVars, secretsVars>>

NextSettings == ValidateThenInitialize

SpecSettings == InitSettings /\ [][NextSettings]_vars

(* --------------- Config.__init__: the secrets providers --------------- *)

\* the order Config.__init__ tries the providers in
ProviderOrder == <<"Doppler", "AWS", "Vault">>
Providers == {ProviderOrder[i] : i \in DOMAIN ProviderOrder}

\* load_secrets of a provider: its selecting variable is not set or the
\* load fails (both return False), the secrets are loaded (True), or an
\* exception leaves load_secrets. DopplerSecretsManager catches every
\* exception; AWSSecretsManager catches only ClientError and ImportError, and
\* VaultSecretsManager builds and authenticates its client outside the try
\* that catches Exception.
LoadOutcomes(p) ==
    IF p = "Doppler" THEN {"unset", "failed", "loaded"}
    ELSE {"unset", "failed", "loaded", "raised"}

\* the environments: the outcome of each provider's load, the providers
\* whose secrets hold the key looked up, and whether the process environment
\* and the .env file hold it
Environments ==
    [load : {l \in [Providers -> {"unset", "failed", "loaded", "raised"}] :
                \A p \in Providers : l[p] \in LoadOutcomes(p)},
     holds : SUBSET Providers, environ : BOOLEAN, dotenv : BOOLEAN]

\* a selection that loads every provider and keeps the last that loaded
RECURSIVE try_providers_all(_, _)
try_providers_all(i, env) ==
    IF i > Len(ProviderOrder) THEN [secrets_manager |-> "env", consulted |-> <<>>]
    ELSE LET p == ProviderOrder[i]
             rest == try_providers_all(i + 1, env)
         IN [secrets_manager |->
                IF rest.secrets_manager = "env" /\ env.load[p] = "loaded"
                THEN p ELSE rest.secrets_manager,
             consulted |-> <<p>> \o rest.consulted]

\* Config.__init__: "if doppler.load_secrets(): ..." and then, each under
\* "if not self.secrets_manager", AWS, Vault and the .env fallback, from
\* provider i on; an exception out of load_secrets leaves __init__
RECURSIVE try_providers(_, _)
try_providers(i, env) ==
    IF i > Len(ProviderOrder) THEN [secrets_manager |-> "env", consulted |-> <<>>]
    ELSE LET p == ProviderOrder[i] IN
         IF env.load[p] = "loaded" THEN [secrets_manager |-> p, consulted |-> <<p>>]
         ELSE IF env.load[p] = "raised"
         THEN [secrets_manager |-> "raised", consulted |-> <<p>>]
         ELSE LET rest == try_providers(i + 1, env) IN
              [secrets_manager |-> rest.secrets_manager,
               consulted |-> <<p>> \o rest.consulted]

\* Config._get_env: where the value of the key comes from. The fallback
\* manager's cache is dict(os.environ) after load_dotenv(), which adds the
\* keys of the .env file the environment does not have; with a provider
\* the .env file is not loaded.
get_env(manager, env) ==
    IF manager \in Providers
    THEN IF manager \in env.holds THEN manager
         ELSE IF env.environ THEN "environ" ELSE "default"
    ELSE IF env.environ THEN "environ"
         ELSE IF env.dotenv THEN "dotenv" ELSE "default"

\* the module config is being imported
InitSecrets ==
    /\ InitDaemon
    /\ config = [enabled |-> {}, missing |-> {}, template_ok |-> TRUE]
    /\ state_file = [kind |-> "missing", starred_repos |-> {}]
    /\ message = <<>>
    /\ metadata = NoMetadata
    /\ delivered = NoDelivery
    /\ NoConnector
    /\ NoStore
    /\ NoMatrix
    /\ NoDiscord
    /\ NoPreview /\ NoStartup /\ NoLogin /\ NoFanOut /\ NoSettings
    /\ environment \in Environments
    /\ secrets = [done |-> FALSE, secrets_manager |-> "none", consulted |-> <<>>,
                  source |-> "none"]

\* Config.__init__: the provider is chosen and the settings are read
\* through _get_env
ConfigInit ==
    /\ ~secrets.done
    /\ LET chosen == try_providers(1, environment) IN
       secrets' = [done |-> TRUE,
                   secrets_manager |-> chosen.secrets_manager,
                   consulted |-> chosen.consulted,
                   source |-> IF chosen.secrets_manager = "raised" THEN "none"
                              ELSE get_env(chosen.secrets_manager, environment)]
    /\ UNCHANGED <<oldVars, daemonVars, environment, startupVars, loginVars, fanOutVars, settingsVars>>

NextSecrets == ConfigInit

SpecSecrets == InitSecrets /\ [][NextSecrets]_vars

(* ------------------------------ claims -------------------------------- *)

\* a cycle whose fetch succeeded has run to its end (or skipped to it)
CycleDone == fetch_ok /\ pc = "sleep"
\* the cycle is between its fetch and its end
InCycle == fetch_ok /\ pc \in {"dispatch", "post", "save", "sleep"}
\* the platforms of the active list
Active == {connectors[i] : i \in DOMAIN connectors}
\* the state file holds exactly the key set s
Persisted(s) == state_file = [kind |-> "ok", starred_repos |-> s]

\* C1: in every cycle whose fetch succeeds, the items handed to
\* _handle_new_star are exactly keys(S) - W, W the watermark at the start of
\* the cycle: never an item outside the difference while the cycle runs, and
\* all of the difference once the for loop is over.
C1_DispatchedIsDifference ==
    /\ InCycle => handled \subseteq (current_starred \ cycle_start)
    /\ (fetch_ok /\ pc \in {"save", "sleep"}) => handled = current_starred \ cycle_start

C1_Witness ==
    /\ CycleDone
    /\ cycle_start = {"a/repo1"}
    /\ current_starred = {"a/repo1", "b/repo2"}
    /\ handled = {"b/repo2"}

C3_WatermarkCoversSnapshot ==
    /\ CycleDone => current_starred \subseteq starred_repos
    /\ (pc = "run" /\ no_watermark) => current_starred \subseteq starred_repos

C3_Witness ==
    /\ CycleDone
    /\ new_stars = {}
    /\ current_starred # {}
    /\ current_starred # starred_repos
    /\ current_starred \subseteq starred_repos

\* C4: started without a persisted watermark, initialize sets the watermark
\* to keys(S1) and hands it to _save_state (the file holds it when the write
\* succeeds); no safe_post happens during initialization, and none happens
\* later for an item of S1 that has been in every snapshot since.
C4_BaselineNeverPosts ==
    /\ (pc = "run" /\ no_watermark) =>
          /\ starred_repos = current_starred
          /\ save_result # "none"
          /\ (save_result = "ok" => Persisted(current_starred))
    /\ pc \in {"start", "run"} => invoked = {}
    /\ no_watermark => \A iv \in invoked : iv[1] \notin baseline

C4_Witness ==
    /\ no_watermark
    /\ baseline # {}
    /\ invoked # {}
    /\ pc = "sleep"

\* C5: a cycle that fetches the snapshot the cycle right before it fetched
\* (both fetches succeeded) detects nothing and invokes no connector.
C5_SecondRunDetectsNothing ==
    rerun # "no" => (new_stars = {} /\ handled = {} /\ invoked = {})

C5_Witness ==
    /\ rerun = "after_new"
    /\ pc = "sleep"
    /\ current_starred = Items

\* C6: a connector whose initialize() or test_connection() failed is never
\* in the active list and safe_post is never called on it; the active list
\* built by _initialize_connectors does not change once the daemon runs.
C6_FailedConnectorNeverUsed ==
    /\ [](/\ \A c \in Active : c \in constructed /\ initialized[c] /\ c \in tested
          /\ \A iv \in invoked : initialized[iv[2]] /\ iv[2] \in tested)
    /\ [][pc # "start" => /\ connectors' = connectors
                          /\ initialized' = initialized
                          /\ constructed' = constructed]_vars

C6_Witness ==
    /\ \E c \in constructed : initialized[c] /\ c \notin tested /\ c \notin Active
    /\ invoked # {}
    /\ pc = "sleep"

\* C7: a ready connector's post_message raising makes safe_post return
\* False: nothing propagates to the dispatcher, and the connector is as
\* ready after the call as it was before.
C7_SafePostNeverRaises ==
    \A i \in DOMAIN post_log :
        /\ post_log[i].ret \in {"True", "False"}
        /\ post_log[i].outcome = "raised" =>
              post_log[i].ret = "False" /\ is_ready(post_log[i].connector)

C7_Witness ==
    /\ pc = "dispatch"
    /\ \E i \in DOMAIN post_log : post_log[i].outcome = "raised"

\* the fan-out of the item last handled called every active connector once,
\* in order, and recorded a success exactly for the delivered posts
FanOutComplete ==
    /\ Len(post_log) = Len(connectors)
    /\ \A i \in DOMAIN post_log :
          /\ post_log[i].connector = connectors[i]
          /\ (post_log[i].ret = "True") = (post_log[i].outcome = "delivered")
          /\ (post_log[i].ret = "False") = (post_log[i].outcome # "delivered")

\* C8: whatever the post outcomes, once the message of an item is rendered
\* every active connector's safe_post is called for it, the remaining new
\* items are dispatched too, and the cycle ends with the watermark advanced
\* and handed to _save_state; with two connectors, one failing and one
\* delivering, an item yields one delivered and one failed result.
C8_PartialFailureIsolation ==
    config.template_ok =>
        /\ (fetch_ok /\ handled # {} /\ pc \in {"dispatch", "save", "sleep"}) =>
              /\ FanOutComplete
              /\ invoked = handled \X Active
        /\ (CycleDone /\ new_stars # {}) =>
              /\ handled = new_stars
              /\ invoked = new_stars \X Active
              /\ starred_repos = current_starred
              /\ save_result # "none"
              /\ (save_result = "ok" => Persisted(current_starred))
        /\ (fetch_ok /\ pc \in {"dispatch", "save", "sleep"} /\ Len(post_log) = 2
              /\ Cardinality({i \in DOMAIN post_log :
                                 post_log[i].outcome = "delivered"}) = 1) =>
              /\ Cardinality({i \in DOMAIN post_log : post_log[i].ret = "True"}) = 1
              /\ Cardinality({i \in DOMAIN post_log : post_log[i].ret = "False"}) = 1

C8_Witness ==
    /\ CycleDone
    /\ Len(connectors) = 2
    /\ Cardinality(new_stars) = 2
    /\ Len(post_log) = 2
    /\ post_log[1].outcome = "raised" /\ post_log[1].ret = "False"
    /\ post_log[2].outcome = "delivered" /\ post_log[2].ret = "True"
    /\ starred_repos = current_starred
    /\ save_result = "ok"

\* the truncation marker
Ellipsis == "."
IsPrefix(q, m) == Len(q) <= Len(m) /\ q = SubSeq(m, 1, Len(q))

\* C9: the text a connector delivers is at most L long; a message longer
\* than L is delivered as a truncation of it that ends with the marker, a
\* message of length at most L is delivered unmodified.
C9_MessageTruncated ==
    delivered.platform # "none" =>
        LET t == delivered.text IN
        /\ Len(t) <= CharLimit
        /\ Len(message) <= CharLimit => t = message
        /\ Len(message) > CharLimit =>
              /\ t # <<>>
              /\ t[Len(t)] = Ellipsis
              /\ IsPrefix(SubSeq(t, 1, Len(t) - 1), message)

\* C10: a process stopped by a signal has finished the cycle it was in:
\* when a safe_post was made in that cycle, the stop came after the cycle's
\* watermark update and save, so the items dispatched are in the watermark
\* that was saved.
C10_StopsAfterTheTick ==
    (pc = "stopped" /\ shutdown_called /\ invoked # {}) =>
        /\ stopped_at \in {"sleep", "tick"}
        /\ save_result # "none"
        /\ handled \subseteq starred_repos
        /\ (save_result = "ok" => handled \subseteq load_state(state_file))

\* the process is inside daemon.run() and no signal has stopped it
Running == pc \in {"run", "tick", "dispatch", "post", "save", "sleep"}
\* the cycle's fetch raised: check_new_stars logged it and returned
FetchFailed == ~fetch_ok /\ pc = "sleep"

\* C11: a fetch that raises while the daemon runs ends the cycle at once and
\* changes nothing: no item is handed to _handle_new_star, no safe_post is
\* made, the watermark, the state file and the connectors are what they
\* were before the fetch, and they stay so until the next fetch.
C11_FetchFailureChangesNothing ==
    /\ [](FetchFailed => /\ handled = {} /\ invoked = {} /\ new_stars = {}
                          /\ starred_repos = cycle_start
                          /\ save_result = "none")
    /\ [][((pc = "tick" /\ pc' \notin {"tick", "stopped"} /\ ~fetch_ok')
             \/ (FetchFailed /\ pc' # "stopped"))
           => /\ pc' \in {"sleep", "tick"}
              /\ starred_repos' = starred_repos
              /\ state_file' = state_file
              /\ connVars' = connVars]_vars

C11_Witness ==
    /\ FetchFailed
    /\ starred_repos = {"a/repo1"}
    /\ state_file = [kind |-> "ok", starred_repos |-> {"a/repo1"}]
    /\ connectors # <<>>

\* the process was stopped by a signal
ShutDown == pc = "stopped" /\ exit_code = "0"

\* C12: while the daemon runs and no signal stops it, the loop always comes
\* back to the fetch and the fetch is attempted (the step out of "tick" is
\* check_new_stars' get_starred), whatever fetches, posts and saves failed
\* before.
C12_LoopKeepsFetching ==
    /\ (pc \in {"run", "dispatch", "post", "save", "sleep"}) ~> (pc = "tick" \/ ShutDown)
    /\ (pc = "tick") ~> (pc \in {"dispatch", "sleep"} \/ ShutDown)

C12_Witness ==
    /\ pc = "tick"
    /\ fetch_ok
    /\ save_result \in {"open_failed", "write_failed"}
    /\ \E i \in DOMAIN post_log : post_log[i].outcome = "raised"
    /\ \E i \in DOMAIN post_log : post_log[i].outcome = "failed"

\* C13: whatever _load_state finds that is not a well-formed state file (no
\* file, a file that cannot be read, invalid JSON, JSON of a wrong shape),
\* the watermark after the load is empty when initialize goes on to run().
C13_LoadNeverFatal == (pc = "run" /\ state_file.kind # "ok") => no_watermark

\* the cycle's _save_state did not write the file
SaveFailed == save_result \in {"open_failed", "write_failed"}

\* C14: a _save_state that fails ends the cycle like one that succeeds (the
\* daemon sleeps), the in-memory watermark is still the advanced one, and the
\* next cycle of the process detects none of the items the cycle dispatched.
C14_FailedSaveKeepsWatermark ==
    /\ []((CycleDone /\ SaveFailed) =>
              starred_repos = current_starred /\ handled \subseteq starred_repos)
    /\ [][(pc = "save" /\ pc' # "stopped") => pc' = "sleep"]_vars
    /\ [][(pc = "tick" /\ fetch_ok /\ SaveFailed /\ pc' \in {"dispatch", "sleep"})
              => new_stars' \cap handled = {}]_vars

C14_Witness ==
    /\ pc = "sleep"
    /\ rerun = "after_new"
    /\ state_file.kind = "corrupt"
    /\ starred_repos = Items
    /\ new_stars = {}

\* C15: every cycle whose fetch succeeds calls _save_state, also a cycle that
\* found no new item, so that a save that failed is attempted again by the
\* next cycle whose fetch succeeds.
C15_SaveEveryCycle == CycleDone => save_result # "none"

\* C16: a _load_state that follows a successful _save_state of the watermark
\* W gives exactly W, whatever the watermark was assigned in between, and
\* the document written holds the keys of W, each once, and a last-updated
\* time.
C16_StateRoundTrip ==
    /\ (last_op = "load" /\ state.present) => starred_repos = saved
    /\ state.present =>
          /\ DOMAIN state.doc = {"starred_repos", "last_updated"}
          /\ as_set(state.doc.starred_repos) = saved
          /\ Len(state.doc.starred_repos) = Cardinality(saved)
          /\ state.doc.last_updated \in 0..clock

C16_Witness ==
    /\ last_op = "load"
    /\ starred_repos = Items
    /\ saved = Items
    /\ state.doc.starred_repos[1] = "b/repo2"
    /\ state.doc.last_updated = 1
    /\ clock = 2

\* C17: in every state, for every connector object, is_ready() is true
\* exactly when the connector is enabled, its initialize() succeeded and its
\* test_connection() passed.
C17_ReadyIffTested ==
    \A c \in constructed : is_ready(c) <=> (initialized[c] /\ c \in tested)

\* C18: a safe_post call on a connector whose is_ready() is false does not
\* invoke post_message and returns False.
C18_NotReadyNeverPosts ==
    \A i \in DOMAIN calls :
        ~calls[i].ready => (~calls[i].attempted /\ calls[i].ret = "False")

C18_Witness ==
    /\ Len(calls) = 3
    /\ ~calls[1].ready /\ ~calls[1].attempted /\ calls[1].ret = "False"
    /\ calls[2].ready /\ calls[2].attempted /\ calls[2].ret = "True"
    /\ calls[3].ready /\ calls[3].outcome = "raised"
    /\ enabled

\* C19: within a cycle safe_post is called at most once for each pair of a
\* new item and an active connector, also after a post that failed or raised
\* (the call about to be made is always for a pair not called yet, an item
\* handled is not visited again, a fan-out names no connector twice), and
\* every call of a fan-out is passed the message and metadata of the one item
\* _handle_new_star built them for.
C19_NoRetryWithinCycle ==
    /\ pc = "post" =>
          /\ <<repo, connectors[idx]>> \notin invoked
          /\ repo \in handled
    /\ todo \cap handled = {}
    /\ Len(post_log) <= Len(connectors)
    /\ \A i, j \in DOMAIN post_log :
          /\ post_log[i].connector = post_log[j].connector => i = j
          /\ post_log[i].item = post_log[j].item
          /\ post_log[i].item \in handled

C19_Witness ==
    /\ CycleDone
    /\ Len(connectors) = 2
    /\ Cardinality(invoked) = 4
    /\ post_log[1].outcome = "raised"
    /\ post_log[2].outcome = "failed"

\* C20: while the items of a cycle are being dispatched the watermark is the
\* one the cycle started with and nothing has been saved; the watermark is
\* assigned, and then saved, only when every new item has been handled and
\* (the template formatting) every active connector's safe_post has returned
\* for it.
C20_UpdateAfterDispatch ==
    /\ (fetch_ok /\ pc \in {"dispatch", "post"}) =>
          starred_repos = cycle_start /\ save_result = "none"
    /\ (fetch_ok /\ pc = "save") => save_result = "none"
    /\ (fetch_ok /\ pc \in {"save", "sleep"} /\ starred_repos # cycle_start) =>
          /\ todo = {}
          /\ handled = new_stars
          /\ config.template_ok => invoked = new_stars \X Active
    /\ (fetch_ok /\ save_result # "none") => (pc \in {"sleep", "tick", "stopped"} /\ todo = {})

C20_Witness ==
    /\ pc = "save"
    /\ fetch_ok
    /\ cycle_start = {"a/repo1"}
    /\ starred_repos = {"b/repo2"}
    /\ invoked = {"b/repo2"} \X Active
    /\ Len(connectors) = 2
    /\ save_result = "none"

\* C21 as stated: the watermark after a cycle contains the watermark before
\* it.
C21_WatermarkNeverShrinks == CycleDone => cycle_start \subseteq starred_repos

\* C21 amended: a cycle drops keys from the watermark only when it found a
\* new item, and then exactly the keys that are absent from the snapshot; a
\* cycle that found none, in particular one that fetched an empty snapshot,
\* neither changes the watermark nor writes the state file.
C21_ShrinksOnlyWhenNew ==
    /\ CycleDone =>
          cycle_start \ starred_repos =
              IF new_stars # {} THEN cycle_start \ current_starred ELSE {}
    /\ (CycleDone /\ new_stars = {}) =>
          starred_repos = cycle_start /\ save_result = "none"
    /\ (fetch_ok /\ current_starred = {} /\ pc \in {"dispatch", "post", "save", "sleep"}) =>
          /\ new_stars = {}
          /\ pc = "sleep"
          /\ starred_repos = cycle_start

C21_Witness ==
    /\ CycleDone
    /\ cycle_start = {"a/repo1"}
    /\ current_starred = {"b/repo2"}
    /\ cycle_start \ starred_repos = {"a/repo1"}
    /\ Persisted(starred_repos)

\* no platform is enabled, or an enabled platform lacks a required setting
InvalidConfig == config.enabled = {} \/ config.enabled \cap config.missing # {}

C23_OnlyTwoFatalErrors ==
    (pc = "stopped" /\ exit_code = "1") => stopped_at \in {"validate", "get_user"}

\* the username+password pair is configured
HasPair == matrix.username /\ matrix.password

\* C24: in every MatrixConnector.initialize call with homeserver and room
\* set: with the pair configured the login exchange is made, also when a
\* token is held, and the call succeeds exactly when the exchange returns a
\* token -- a failed login leaves no token to fall back to; without the pair
\* no exchange is made and the call succeeds exactly when a token is held;
\* with neither the call fails.  The connector is ready only after a call
\* that succeeded.
C24_MatrixAuthPrecedence ==
    /\ \A i \in DOMAIN init_log :
        LET c == init_log[i] IN
        (matrix.homeserver /\ matrix.room_id) =>
            /\ HasPair =>
                  /\ c.method = "login" /\ c.login # "none"
                  /\ c.ret = (c.login = "token")
                  /\ c.token = IF c.login = "token" THEN "fresh" ELSE "none"
            /\ ~HasPair =>
                  /\ c.login = "none"
                  /\ c.token = c.had_token
                  /\ c.ret = (c.had_token # "none")
                  /\ c.method = IF c.had_token # "none" THEN "static" ELSE "none"
    /\ ready(enabled, _initialized) = (\E i \in DOMAIN init_log : init_log[i].ret)
    /\ (init_log # <<>> /\ ~init_log[Len(init_log)].ret) =>
          (HasPair \/ ~matrix.access_token \/ ~matrix.homeserver \/ ~matrix.room_id)

C24_Witness ==
    /\ Len(init_log) = 1
    /\ HasPair /\ matrix.access_token
    /\ init_log[1].method = "login"
    /\ init_log[1].login = "rejected"
    /\ init_log[1].had_token = "static"
    /\ access_token = "none"
    /\ ~ready(enabled, _initialized)

\* call j of the log is a post for url that was delivered and returned id
DeliveredPost(j, url, id) ==
    LET p == discord_log[j] IN
    p.op = "post" /\ p.url = url /\ p.sent /\ p.ret /\ p.id = id /\ id # "none"

\* C25: update_message(url, ...) sends its PATCH only when an earlier
\* post_message for that URL was delivered and returned a message id, and
\* it names the id of the latest such post; every other update returns False
\* without a request.  A post that failed, raised or returned no id leaves
\* active_messages as it was.
C25_UpdateOnlyAfterPost ==
    \A i \in DOMAIN discord_log :
        LET c == discord_log[i] IN
        /\ (c.op = "patch" /\ c.sent) =>
              /\ c.url # "none"
              /\ \E j \in 1..(i - 1) :
                    /\ DeliveredPost(j, c.url, c.id)
                    /\ \A k \in (j + 1)..(i - 1) :
                          ~(\E id \in MessageIds : DeliveredPost(k, c.url, id))
        /\ (c.op = "patch" /\ ~c.sent) =>
              /\ ~c.ret
              /\ c.outcome = "none"
              /\ c.url # "none" =>
                    ~(\E j \in 1..(i - 1) : \E id \in MessageIds :
                        DeliveredPost(j, c.url, id))
        /\ (c.op = "post" /\ ~(c.sent /\ c.outcome = "ok_id")) => c.after = c.before
        /\ (c.op = "post" /\ ~c.ret) => c.after = c.before

C25_Witness ==
    /\ Len(discord_log) = 3
    /\ discord_log[1].op = "post" /\ discord_log[1].outcome = "ok_id"
    /\ discord_log[1].url = UrlNames[1] /\ discord_log[1].id = "m1"
    /\ discord_log[2].op = "post" /\ discord_log[2].outcome = "status"
    /\ discord_log[2].url = UrlNames[1]
    /\ discord_log[3].op = "patch" /\ discord_log[3].sent
    /\ discord_log[3].url = UrlNames[1] /\ discord_log[3].id = "m1"

\* C26: whatever fails while a BlueSky or Mastodon post builds its preview
\* (a missing description, the thumbnail download or upload, the page fetch,
\* the construction of the card), the send is made and the call returns what
\* the send gives; the card or the thumbnail that could not be built is left
\* out.
C26_PreviewNeverAbortsPost ==
    posted.platform # "none" =>
        /\ posted.sent
        /\ posted.ret = (posted.send = "ok")
        /\ (posted.platform = "BlueSky" /\ envelope.first_url = "github"
               /\ (~envelope.description \/ posted.build = "raised")) =>
              posted.card = "none"
        /\ (posted.platform = "BlueSky" /\ envelope.first_url = "other"
               /\ (posted.page = "raised" \/ posted.build = "raised")) =>
              posted.card = "none"
        /\ (posted.thumb # "ok" \/ posted.upload # "ok") =>
              posted.card \in {"none", "card"}

C26_Witness ==
    /\ posted.platform = "BlueSky"
    /\ envelope.first_url = "other"
    /\ posted.page = "raised"
    /\ posted.card = "none"
    /\ posted.sent /\ posted.ret

\* C27: every item that enters the watermark in a cycle of the running
\* daemon has had safe_post called for it on every connector of the active
\* list in that cycle, whatever the message template and the item's metadata.
C27_WatermarkedItemsWereDispatched ==
    (fetch_ok /\ pc \in {"save", "sleep"}) =>
        \A r \in starred_repos \ cycle_start :
            \A c \in Active : <<r, c>> \in invoked

\* C28: when a well-formed state file exists at startup, an empty key list
\* included, initialize takes the watermark from the file and does not
\* baseline: the startup snapshot is not absorbed and the file is not
\* rewritten.
C28_WellFormedFileIsNotBaselined ==
    [][(pc = "start" /\ pc' = "run" /\ state_file.kind = "ok") =>
          /\ starred_repos' = state_file.starred_repos
          /\ state_file' = state_file]_vars

\* C29: started with a non-empty persisted watermark W, initialize leaves the
\* watermark equal to W -- the snapshot it fetched is not absorbed, nothing is
\* dispatched and the file is not rewritten -- and a cycle that starts from
\* the persisted W, as the first one does, hands to _handle_new_star exactly
\* the items of its snapshot that are not in W, and calls every active
\* connector for each when the template renders.
C29_RestartCatchUp ==
    /\ (pc \in {"run", "tick"} /\ ~no_watermark /\ cycle_start = {}) =>
          /\ starred_repos = load_state(state_file)
          /\ starred_repos # {}
          /\ handled = {} /\ invoked = {}
          /\ save_result = "none"
    /\ (fetch_ok /\ pc = "save" /\ ~no_watermark
           /\ cycle_start = load_state(state_file)) =>
          /\ handled = current_starred \ load_state(state_file)
          /\ config.template_ok => invoked = handled \X Active

C29_Witness ==
    /\ fetch_ok /\ pc = "save" /\ ~no_watermark
    /\ Persisted({"a/repo1"})
    /\ cycle_start = {"a/repo1"}
    /\ current_starred = {"a/repo1", "b/repo2"}
    /\ Active # {}
    /\ invoked = {"b/repo2"} \X Active

\* C30: within one process an item is attempted at most once per active
\* connector as long as every snapshot fetched since holds it. A cycle calls
\* safe_post only for items that were not in the watermark when it started,
\* and at most once per connector for each; the items a cycle attempted are
\* in the watermark it leaves, whatever the posts returned and whether or not
\* the save worked; a key of the watermark stays in it unless a fetched
\* snapshot lacks it; and the next cycle diffs against that watermark.
C30_AtMostOncePerProcess ==
    /\ [](InCycle =>
            /\ handled \cap cycle_start = {}
            /\ \A iv \in invoked : iv[1] \in handled
            /\ \A i, j \in DOMAIN post_log :
                  i # j => post_log[i].connector # post_log[j].connector)
    /\ [][(pc = "dispatch" /\ pc' = "save") => handled \subseteq starred_repos']_vars
    /\ [][pc # "start" =>
            \A r \in starred_repos :
                r \in starred_repos' \/ (fetch_ok /\ r \notin current_starred)]_vars
    /\ [][(pc = "tick" /\ pc' \notin {"tick", "stopped"}) =>
            /\ cycle_start' = starred_repos
            /\ handled' = {} /\ invoked' = {}
            /\ fetch_ok' => new_stars' = current_starred' \ starred_repos]_vars

C30_Witness ==
    /\ rerun = "after_new"
    /\ CycleDone
    /\ Active # {}
    /\ current_starred = {"b/repo2"}
    /\ starred_repos = {"b/repo2"}
    /\ state_file.kind = "corrupt"
    /\ handled = {} /\ invoked = {}

\* C31: a process that a SIGINT/SIGTERM has stopped has executed shutdown()
\* and has running false, its loop was entered only after initialize
\* succeeded, and nothing was dispatched outside the loop.
C31_SignalEndsInShutdown ==
    /\ (pc = "stopped" /\ exit_code = "0") => (shutdown_called /\ ~running)
    /\ (pc = "stopped" /\ stopped_at \in {"validate", "get_user", "get_starred", "start"}) =>
          invoked = {} /\ handled = {}
    /\ pc = "start" => invoked = {} /\ handled = {}

\* the calls _initialize_connectors made on platform p, oldest first
StartupCalls(p, op) ==
    {k \in DOMAIN startup_log :
        /\ startup_log[k].platform = p /\ startup_log[k].op = op
        /\ startup_log[k].by = "startup"}

\* C32: once _initialize_connectors is over, every enabled platform has had
\* initialize() called exactly once and test_connection() at most once, the
\* test exactly when initialize() returned True and right after it; a
\* disabled platform has no connector object and no call; and a
\* test_connection() on a connector whose initialize() did not succeed
\* returns False without a request.
C32_StartupProtocol ==
    /\ startup_pos = NumPlatforms + 1 =>
          /\ constructed = config.enabled
          /\ \A p \in Platforms :
                IF p \in config.enabled
                THEN /\ Cardinality(StartupCalls(p, "initialize")) = 1
                     /\ Cardinality(StartupCalls(p, "test_connection")) =
                            IF initialized[p] THEN 1 ELSE 0
                ELSE /\ StartupCalls(p, "initialize") = {}
                     /\ StartupCalls(p, "test_connection") = {}
    /\ \A k \in DOMAIN startup_log :
          /\ startup_log[k].platform \in config.enabled
          /\ (startup_log[k].op = "test_connection" /\ startup_log[k].by = "startup") =>
                /\ k > 1
                /\ startup_log[k - 1].platform = startup_log[k].platform
                /\ startup_log[k - 1].op = "initialize"
                /\ startup_log[k - 1].ret
          /\ (startup_log[k].op = "test_connection"
                 /\ ~initialized[startup_log[k].platform]) =>
                ~startup_log[k].ret /\ ~startup_log[k].network

C32_Witness ==
    /\ startup_pos = NumPlatforms + 1
    /\ config.enabled = {"Mastodon", "BlueSky"}
    /\ initialized["Mastodon"] /\ ~initialized["BlueSky"]
    /\ \E k \in DOMAIN startup_log :
          /\ startup_log[k].by = "probe"
          /\ startup_log[k].platform = "BlueSky"
    /\ connectors = <<"Mastodon">>

\* C33: for every configured user id, with or without a leading "@" and
\* with or without a ":domain" suffix, the user submitted in the login
\* exchange is the local part only: it holds no ":" and no leading "@".
C33_LoginUsesLocalPart ==
    login_data.sent =>
        /\ \A k \in DOMAIN login_data.user : login_data.user[k] # ":"
        /\ login_data.user =
              split_first(IF Head(user_id) = "@" THEN Tail(user_id) ELSE user_id)

\* C34: when the envelope carries repo_data, BlueSkyConnector.post_message
\* builds the card from it and never requests the page at the URL, whatever
\* the host of the URL.
C34_NoScrapeWithRepoData ==
    posted.platform = "BlueSky" => ~posted.scraped

\* C37: for an item the daemon dispatched whose URL is on github.com, the
\* BlueSky post carries a card built from the envelope's repository
\* metadata, whether the description and the owner avatar are there or not
\* (the construction of the card and the send working).
C37_CardForEveryMetadata ==
    (posted.platform = "BlueSky" /\ envelope.first_url = "github"
        /\ posted.build = "ok" /\ posted.send = "ok") =>
        posted.card \in {"card", "card_thumb"} /\ ~posted.scraped

\* C35: in the fan-out of one item a connector's post adds at most its own
\* handle key to the shared metadata dict, only when the platform accepted
\* the post, and changes no other key; the dict is new for every item, so
\* every handle in it was written in the current fan-out.
C35_EnvelopeScoping ==
    /\ fan_call.platform # "none" =>
          /\ \A k \in DOMAIN fan_call.before :
                k \in DOMAIN fan_call.after /\ fan_call.after[k] = fan_call.before[k]
          /\ DOMAIN fan_call.after \ DOMAIN fan_call.before
                \subseteq ({handle_key(fan_call.platform)} \cap HandleKeys)
          /\ fan_call.after # fan_call.before => fan_call.outcome = "posted_id"
          /\ \A k \in DOMAIN fan_call.before : fan_call.before[k] = fan_call.n
    /\ fan_pos = 1 => DOMAIN fan_metadata = EnvelopeKeys
    /\ \A k \in DOMAIN fan_metadata : fan_metadata[k] = fan_count

C35_Witness ==
    /\ fan_count = 2
    /\ fan_pos = 3
    /\ fan_call.platform = "BlueSky"
    /\ fan_call.outcome = "posted_id"
    /\ DOMAIN fan_call.before = EnvelopeKeys
    /\ fan_call.after["last_post_uri"] = 2

\* C36: for every configuration Config.validate() accepts, no enabled
\* connector's initialize() turns the connector down for a missing
\* credential or a missing webhook URL.
C36_ValidatedMeansInitializable ==
    (precheck.done /\ precheck.valid) => precheck.rejected = {}

\* position of a provider in the order
ProviderIndex(p) == CHOOSE i \in DOMAIN ProviderOrder : ProviderOrder[i] = p

\* C38: the provider Config.__init__ uses is the first of Doppler, AWS
\* Secrets Manager, HashiCorp Vault whose load succeeds; the environment and
\* the .env file are used only when all three fail; no provider after the
\* chosen one is consulted; and a key the chosen provider holds gets the
\* provider's value, not the environment's.
C38_ProviderPrecedence ==
    (secrets.done /\ secrets.secrets_manager # "raised") =>
        LET m == secrets.secrets_manager IN
        /\ m \in Providers \cup {"env"}
        /\ m \in Providers =>
              /\ environment.load[m] = "loaded"
              /\ \A q \in Providers :
                    ProviderIndex(q) < ProviderIndex(m) =>
                        environment.load[q] \in {"unset", "failed"}
              /\ secrets.consulted = SubSeq(ProviderOrder, 1, ProviderIndex(m))
              /\ m \in environment.holds => secrets.source = m
        /\ m = "env" <=>
              \A q \in Providers : environment.load[q] \in {"unset", "failed"}
        /\ m = "env" => secrets.source \in {"environ", "dotenv", "default"}

C38_Witness ==
    /\ secrets.done
    /\ environment.load = [p \in Providers |->
                             IF p = "Doppler" THEN "failed" ELSE "loaded"]
    /\ environment.holds = {"AWS", "Vault"}
    /\ environment.environ
    /\ secrets.secrets_manager = "AWS"
    /\ secrets.consulted = <<"Doppler", "AWS">>
    /\ secrets.source = "AWS"

====
